---- MODULE Spec2Model ----
(***************************************************************************)
(* The peer-to-peer service of the client node (package p2p, type P2P):    *)
(* node lifecycle (Start, Stop, IsStarted), the dial queue with its redial *)
(* goroutines (dialPeers, dialPeer), the ping and request loops, the ping  *)
(* round trip (sendPingToPeer) and message dispatch (handlePeerMessage).   *)
(*                                                                         *)
(* Goroutines are modelled as processes with a program counter; a step is  *)
(* the code between two points where another goroutine can observe or      *)
(* change shared state.  The dial queue is a plain Go map with no lock, so *)
(* the check at line 365, the insert at line 366 and the read and the      *)
(* write of line 400 are separate steps.                                   *)
(***************************************************************************)
EXTENDS Integers, Sequences, FiniteSets, TLC

\* ------------------------------------------------------------ bounds
\* peers known to the peer store (identities returned by GetID)
Peers == {"p1", "p2"}
\* dialPeers goroutines that protocolHandler may start
MaxInst == 2
\* the clock's horizon
MaxTime == 2
\* defaults.Defaults.DialInterval and DialBackoff, in clock units
DialInterval == 1
DialBackoff == 2

Insts == 1..MaxInst

\* ------------------------------------------------------------ state
VARIABLES
    cfg,        \* p.cfg: "nil", "noP2P" (cfg.P2P == nil) or "ok"
    state,      \* p.state != nil
    sync,       \* p.sync != nil
    cancel,     \* p.cancel != nil
    Host,       \* p.state.Host: 0 is nil, 1 the first host built, 2 a later one
    hasAddrs,   \* len(p.state.Host.Addrs()) != 0
    cancelled,  \* p.ctx.Done() is closed
    crashed,    \* the process has panicked
    ret,        \* what the last call of Start or Stop returned
    startOk,    \* some call of Start has returned nil
    clock,      \* time.Now()
    dialQueue,  \* p.dialQueue: peer id -> QueuedPeer or NoEntry
    writable,   \* PeerHandle.IsWritable, per peer
    active,     \* PeerHandle.IsActive, per peer
    conns,      \* len(Host.Network().ConnsToPeer(id)), per peer
    dp,         \* the dialPeers goroutines
    pingLoop,   \* the pingPeer goroutine
    reqLoop,    \* the requestAny goroutine
    ping,       \* a call of sendPingToPeer: its inputs and its result
    disp,       \* a call of handlePeerMessage: its inputs and its result
    pstore,     \* the peer ids in p.state.Host.Peerstore()
    lastDial,   \* per peer, when dialPeers last called dialPeer for it (-1: never)
    hnd,        \* the last call of protocolHandler: its inputs and what it did
    dcall,      \* the last call of dialPeer: its inputs and what it did
    addr,       \* the last call of addAddr: its inputs and what it did
    echo,       \* the last call of pingHandler: its inputs and what it did
    bnc         \* the last call of bn.ToUint8Slice: its inputs and its result

nodeVars == <<cfg, state, sync, cancel>>
lifeVars == <<Host, hasAddrs, cancelled, ret, startOk>>
peerVars == <<writable, active, conns, pstore, lastDial>>
loopVars == <<pingLoop, reqLoop>>
moreCalls == <<hnd, dcall, addr, echo, bnc>>
callVars == <<ping, disp, moreCalls>>
vars == <<cfg, state, sync, cancel, Host, hasAddrs, cancelled, crashed, ret,
          startOk, clock, dialQueue, writable, active, conns, dp, pingLoop,
          reqLoop, ping, disp, pstore, lastDial, hnd, dcall, addr, echo, bnc>>

\* ------------------------------------------------------------ New
\* the map holds no entry for the key
NoEntry == [NextDial |-> -1]

\* a dialPeers goroutine that has not been started
DpOff == [pc |-> "off", pr |-> "nil", now |-> 0, todo |-> {}, k |-> "nil",
          nd |-> 0, timer |-> 0]

\* The nodes Start may be called on: the ones New returns (cfg, state and
\* sync set; cancel is stored as given, and Stop allows for a nil one), and
\* nodes with one of the fields Start checks left nil, or with the P2P
\* sub-config of the shared *ConfigClient nil.
Nodes ==
    { [cfg |-> "ok", state |-> TRUE, sync |-> TRUE, cancel |-> c] : c \in BOOLEAN }
    \cup { [cfg |-> "noP2P", state |-> TRUE, sync |-> TRUE, cancel |-> TRUE],
           [cfg |-> "nil", state |-> TRUE, sync |-> TRUE, cancel |-> TRUE],
           [cfg |-> "ok", state |-> FALSE, sync |-> TRUE, cancel |-> TRUE],
           [cfg |-> "ok", state |-> TRUE, sync |-> FALSE, cancel |-> TRUE] }

\* New returned this node: every field it sets is set
FromNew == cfg = "ok" /\ state /\ sync

InitNode ==
    /\ \E n \in Nodes :
          /\ cfg = n.cfg
          /\ state = n.state
          /\ sync = n.sync
          /\ cancel = n.cancel
    /\ Host = 0
    /\ hasAddrs = FALSE
    /\ cancelled = FALSE
    /\ crashed = FALSE
    /\ ret = [op |-> "none", err |-> "none"]
    /\ startOk = FALSE
    /\ clock = 0
    /\ dialQueue = [p \in Peers |-> NoEntry]
    /\ writable = [p \in Peers |-> FALSE]
    /\ active = [p \in Peers |-> FALSE]
    /\ conns = [p \in Peers |-> 0]
    /\ pstore = {}
    /\ lastDial = [p \in Peers |-> -1]
    /\ dp = [i \in Insts |-> DpOff]
    /\ pingLoop = "off"
    /\ reqLoop = "off"

\* ------------------------------------------------------------ lifecycle
IsStarted == state /\ Host # 0 /\ hasAddrs

\* the calls of Start that can fail, in the order Start makes them
StartCalls == <<"IDFromPublicKey", "NewMultiaddr", "AddPrivKey", "AddPubKey",
                "AddTransport", "AddListenAddr", "dht.New", "Bootstrap",
                "NewMdnsService">>

\* What Start returns when the call named fail (or none) fails: the error,
\* or "panic" for the nil dereference of p.cfg.P2P at line 125.
StartErr(fail) ==
    IF cfg = "nil" THEN "nil config"
    ELSE IF ~state THEN "nil state"
    ELSE IF ~sync THEN "err nil sync"
    ELSE IF cfg = "noP2P" THEN "panic"
    ELSE fail

\* Start with Host assigned before the discovery service is started: a
\* failure of NewMdnsService then leaves the host in place
StartCallPublishEarly(fail, a) ==
    LET err == StartErr(fail) IN
    /\ ~crashed
    /\ crashed' = (err = "panic")
    /\ IF err \in {"nil", "NewMdnsService"}
         THEN /\ Host' = IF Host = 0 THEN 1 ELSE 2
              /\ hasAddrs' = a
              /\ startOk' = (startOk \/ err = "nil")
              /\ conns' = [p \in Peers |-> 0]
              /\ pstore' = {}
         ELSE UNCHANGED <<Host, hasAddrs, startOk, conns, pstore>>
    /\ UNCHANGED <<nodeVars, cancelled, clock, dialQueue, writable, active, lastDial,
                   dp, loopVars, callVars>>

\* Start, when the call named fail (or none, "nil") fails: Host is assigned
\* at line 224, after the last call that can fail; a is whether the host
\* built has an address.  The host is built on a new peer store (line 140)
\* and a new swarm (line 152), which hold no peer and no connection.
StartCall(fail, a) ==
    LET err == StartErr(fail) IN
    /\ ~crashed
    /\ crashed' = (err = "panic")
    /\ IF err = "nil"
         THEN /\ Host' = IF Host = 0 THEN 1 ELSE 2
              /\ hasAddrs' = a
              /\ startOk' = TRUE
              /\ conns' = [p \in Peers |-> 0]
              /\ pstore' = {}
         ELSE UNCHANGED <<Host, hasAddrs, startOk, conns, pstore>>
    /\ UNCHANGED <<nodeVars, cancelled, clock, dialQueue, writable, active, lastDial,
                   dp, loopVars, callVars>>

\* what the caller of Start sees: the errors of the calls Start makes are
\* one error to it
StartRet(fail) ==
    [op |-> "Start",
     err |-> IF StartErr(fail) = fail /\ fail # "nil" THEN "error" ELSE StartErr(fail)]

StartFails == {StartCalls[j] : j \in 1..Len(StartCalls)} \cup {"nil"}

\* the owner calls Start and keeps what it returns
Start ==
    \E fail \in StartFails, a \in BOOLEAN :
        /\ StartCall(fail, a)
        /\ ret' = StartRet(fail)

\* Stop: the error returned
StopErr ==
    IF ~state THEN "ErrUninitializedService"
    ELSE IF Host = 0 THEN "ErrNoHost"
    ELSE "nil"

\* Stop with p.cancel() called before the checks of state and Host
StopCallCancelFirst ==
    /\ ~crashed
    /\ cancelled' = (cancelled \/ cancel)
    /\ UNCHANGED <<nodeVars, Host, hasAddrs, startOk, crashed, clock, dialQueue,
                   peerVars, dp, loopVars, callVars>>

\* Stop: p.cancel() is called when Stop gets that far and cancel is not nil
StopCall ==
    /\ ~crashed
    /\ cancelled' = (cancelled \/ (StopErr = "nil" /\ cancel))
    /\ UNCHANGED <<nodeVars, Host, hasAddrs, startOk, crashed, clock, dialQueue,
                   peerVars, dp, loopVars, callVars>>

\* the owner calls Stop and keeps what it returns
Stop ==
    /\ StopCall
    /\ ret' = [op |-> "Stop", err |-> StopErr]

\* the same two calls with the result dropped
StartDropped ==
    \E fail \in StartFails, a \in BOOLEAN :
        /\ StartCall(fail, a)
        /\ UNCHANGED ret

StopDropped ==
    /\ StopCall
    /\ UNCHANGED ret

\* ------------------------------------------------------------ the loops' owner
\* pingPeer and requestAny have no caller in this package: the owner of a
\* node New returned starts them, once each.  Their timers (PingInterval,
\* RequestInterval) may have fired at any step.
LaunchPingPeer ==
    /\ ~crashed
    /\ FromNew
    /\ pingLoop = "off"
    /\ pingLoop' = "select"
    /\ UNCHANGED <<nodeVars, lifeVars, crashed, clock, dialQueue, peerVars, dp,
                   reqLoop, callVars>>

LaunchRequestAny ==
    /\ ~crashed
    /\ FromNew
    /\ reqLoop = "off"
    /\ reqLoop' = "select"
    /\ UNCHANGED <<nodeVars, lifeVars, crashed, clock, dialQueue, peerVars, dp,
                   pingLoop, callVars>>

\* ------------------------------------------------------------ sendPingToPeer
\* make([]byte, 32)
NonceLen == 32

\* the nonces rand.Read may give
Nonces == { [j \in 1..NonceLen |-> 0], [j \in 1..NonceLen |-> j % 2] }

\* what the stream may deliver before ReadByte fails: the nonce, the nonce
\* cut short, nothing, the nonce with its first or last byte changed, and the
\* nonce with a byte after it
Replies(b) ==
    { b, SubSeq(b, 1, NonceLen - 1), <<>>, [b EXCEPT ![1] = 1 - @],
      [b EXCEPT ![NonceLen] = 1 - @], b \o <<0>> }

\* the calls sendPingToPeer makes that can fail before it reads
PingFails == {"none", "NewStream", "SetDeadline", "rand.Read", "Flush"}

\* lines 545-560: the read loop over the bytes in, then the error term
\* ReadByte ends with.  b2 is the slice declared at line 541 and nb the
\* index; b2[nb] = c is an index out of range when nb is not below len(b2).
RECURSIVE readPong(_, _, _, _)
readPong(in, term, b2, nb) ==
    IF in # <<>>
      THEN IF nb >= Len(b2)
             THEN [res |-> "panic", b2 |-> b2]
             ELSE readPong(Tail(in), term, [b2 EXCEPT ![nb + 1] = Head(in)], nb + 1)
      ELSE IF term = "EOF" \/ nb >= NonceLen
             THEN [res |-> "break", b2 |-> b2]
             ELSE [res |-> term, b2 |-> b2]

\* sendPingToPeer(pr): pr says whether the peer is non-nil, fail which call
\* fails, b is the nonce, in and term what the stream delivers.  The value
\* is the error returned ("nil" for none), or "panic".
sendPingToPeer(pr, fail, b, in, term) ==
    IF ~pr THEN "cannot ping nil peer"
    ELSE IF ~state THEN "nil state"
    ELSE IF Host = 0 THEN "nil host"
    ELSE IF fail # "none" THEN fail
    ELSE LET r == readPong(in, term, <<>>, 0) IN
         IF r.res # "break" THEN r.res
         ELSE IF b # r.b2 THEN "pong does not match ping"
         ELSE "nil"

NoPing == [pr |-> FALSE, fail |-> "none", b |-> <<>>, in |-> <<>>, term |-> "EOF",
           res |-> "none"]

PingCalls ==
    { [pr |-> pr, fail |-> f, b |-> b, in |-> in, term |-> t, res |-> "none"] :
        pr \in BOOLEAN, f \in PingFails, b \in Nonces,
        in \in UNION {Replies(n) : n \in Nonces}, t \in {"EOF", "timeout"} }

\* a direct call of sendPingToPeer with the inputs drawn at the start
SendPing ==
    /\ ~crashed
    /\ ping.res = "none"
    /\ ping # NoPing
    /\ LET res == sendPingToPeer(ping.pr, ping.fail, ping.b, ping.in, ping.term) IN
         /\ ping' = [ping EXCEPT !.res = res]
         /\ crashed' = (res = "panic")
    /\ UNCHANGED <<nodeVars, lifeVars, clock, dialQueue, peerVars, dp, loopVars, disp, moreCalls>>

\* ------------------------------------------------------------ pingPeer
pingPeerDone ==
    /\ ~crashed
    /\ pingLoop = "select"
    /\ cancelled
    /\ pingLoop' = "exited"
    /\ UNCHANGED <<nodeVars, lifeVars, crashed, clock, dialQueue, peerVars, dp,
                   reqLoop, callVars>>

pingPeerTick ==
    /\ ~crashed
    /\ pingLoop = "select"
    /\ ~cancelled
    /\ pingLoop' = "tick"
    /\ UNCHANGED <<nodeVars, lifeVars, crashed, clock, dialQueue, peerVars, dp,
                   reqLoop, callVars>>

\* line 491: one ping of the loop's peer; its error is logged
pingPeerSend ==
    /\ ~crashed
    /\ pingLoop = "tick"
    /\ \E c \in PingCalls :
         /\ c.pr
         /\ crashed' = (sendPingToPeer(c.pr, c.fail, c.b, c.in, c.term) = "panic")
    /\ pingLoop' = "select"
    /\ UNCHANGED <<nodeVars, lifeVars, clock, dialQueue, peerVars, dp, reqLoop,
                   callVars>>

\* ------------------------------------------------------------ requestAny
requestAnyDone ==
    /\ ~crashed
    /\ reqLoop = "select"
    /\ cancelled
    /\ reqLoop' = "exited"
    /\ UNCHANGED <<nodeVars, lifeVars, crashed, clock, dialQueue, peerVars, dp,
                   pingLoop, callVars>>

requestAnyTick ==
    /\ ~crashed
    /\ reqLoop = "select"
    /\ ~cancelled
    /\ reqLoop' = "tick"
    /\ UNCHANGED <<nodeVars, lifeVars, crashed, clock, dialQueue, peerVars, dp,
                   pingLoop, callVars>>

\* lines 610-622: KnownPeers and a RequestBlocks per known peer; every
\* error is logged and the loop goes on
requestAnyRequest ==
    /\ ~crashed
    /\ reqLoop = "tick"
    /\ reqLoop' = "select"
    /\ UNCHANGED <<nodeVars, lifeVars, crashed, clock, dialQueue, peerVars, dp,
                   pingLoop, callVars>>

\* ------------------------------------------------------------ handlePeerMessage
\* the message kinds (handlertypes.FuncEnum)
Kinds == {"BlockResponse", "BlockRequest"}

\* The handler registry: for each kind, the Type() of the handler FromEnum
\* gives for it, "none" when it gives an error, "nil" when it gives no
\* handler and no error.
Registries == [Kinds -> Kinds \cup {"none", "nil"}]

FromEnum(registry, kind) ==
    IF registry[kind] = "none"
      THEN [h |-> "nil", err |-> "no handler"]
      ELSE [h |-> registry[kind], err |-> "nil"]

\* the envelopes: a nil *OnMessage, or a peer and a message (nil, or of a kind)
Envelopes ==
    { [nil |-> n, Peer |-> p, Message |-> m, Kind |-> k] :
        n \in BOOLEAN, p \in Peers, m \in {"nil", "m1"}, k \in Kinds }

\* handlePeerMessage without the check of the handler's Type() at line 589
handlePeerMessageUnchecked(registry, msg, herr) ==
    IF msg.nil THEN [ret |-> "nil msg", calls |-> <<>>]
    ELSE IF msg.Message = "nil" THEN [ret |-> "nil message", calls |-> <<>>]
    ELSE LET f == FromEnum(registry, msg.Kind) IN
         IF f.err # "nil" THEN [ret |-> f.err, calls |-> <<>>]
         ELSE IF f.h = "nil" THEN [ret |-> "nil handler", calls |-> <<>>]
         ELSE [ret |-> herr,
               calls |-> << [kind |-> msg.Kind, Type |-> f.h, Peer |-> msg.Peer,
                             Message |-> msg.Message] >>]

\* handlePeerMessage(msg): ret is the error returned, calls the calls of
\* handler functions made, each with the kind it is registered for, its
\* Type() and its arguments; herr is what the handler function returns.
handlePeerMessage(registry, msg, herr) ==
    IF msg.nil THEN [ret |-> "nil msg", calls |-> <<>>]
    ELSE IF msg.Message = "nil" THEN [ret |-> "nil message", calls |-> <<>>]
    ELSE LET f == FromEnum(registry, msg.Kind) IN
         IF f.err # "nil" THEN [ret |-> f.err, calls |-> <<>>]
         ELSE IF f.h = "nil" THEN [ret |-> "nil handler", calls |-> <<>>]
         ELSE IF f.h # msg.Kind THEN [ret |-> "wrong handler", calls |-> <<>>]
         ELSE [ret |-> herr,
               calls |-> << [kind |-> msg.Kind, Type |-> f.h, Peer |-> msg.Peer,
                             Message |-> msg.Message] >>]

NoDisp == [registry |-> [k \in Kinds |-> "none"],
           msg |-> [nil |-> TRUE, Peer |-> "p1", Message |-> "nil", Kind |-> "BlockResponse"],
           herr |-> "nil", ret |-> "none", calls |-> <<>>]

DispCalls ==
    { [registry |-> r, msg |-> m, herr |-> e, ret |-> "none", calls |-> <<>>] :
        r \in Registries, m \in Envelopes, e \in {"nil", "handler error"} }

\* a call of handlePeerMessage with the inputs drawn at the start
HandlePeerMessage ==
    /\ ~crashed
    /\ disp.ret = "none"
    /\ disp \in DispCalls
    /\ LET r == handlePeerMessage(disp.registry, disp.msg, disp.herr) IN
         disp' = [disp EXCEPT !.ret = r.ret, !.calls = r.calls]
    /\ UNCHANGED <<nodeVars, lifeVars, crashed, clock, dialQueue, peerVars, dp,
                   loopVars, ping, moreCalls>>

\* ------------------------------------------------------------ peer handles
\* The peer store and the peer handles are collaborators of this package:
\* a handle is writable once a connection has been attached to it, active
\* while a dial is recent, and loses both when its last connection closes.

\* PeerHandle.AddConnection(conn, true) succeeded
AddConnection(p) ==
    /\ writable' = [writable EXCEPT ![p] = TRUE]
    /\ active' = [active EXCEPT ![p] = TRUE]

\* the dial is no longer recent
ActiveLapses(p) ==
    /\ ~crashed
    /\ active[p]
    /\ active' = [active EXCEPT ![p] = FALSE]
    /\ UNCHANGED <<nodeVars, lifeVars, crashed, clock, dialQueue, writable,
                   conns, pstore, lastDial, dp, loopVars, callVars>>

\* the remote side closes the connection
ConnClosed(p) ==
    /\ ~crashed
    /\ conns[p] > 0
    /\ conns' = [conns EXCEPT ![p] = @ - 1]
    /\ writable' = [writable EXCEPT ![p] = @ /\ conns[p] > 1]
    /\ active' = [active EXCEPT ![p] = @ /\ conns[p] > 1]
    /\ UNCHANGED <<nodeVars, lifeVars, crashed, clock, dialQueue, pstore, lastDial,
                   dp, loopVars, callVars>>

\* time passes
Tick ==
    /\ ~crashed
    /\ clock < MaxTime
    /\ clock' = clock + 1
    /\ UNCHANGED <<nodeVars, lifeVars, crashed, dialQueue, peerVars, dp, loopVars, callVars>>

\* ------------------------------------------------------------ protocolHandler
\* the dialPeers goroutine the next go statement starts
FreeInst == {i \in Insts : dp[i].pc = "off" /\ \A j \in 1..(i - 1) : dp[j].pc # "off"}

\* what can go wrong in the calls the handler makes, "ok" when nothing does
HandlerFails == {"InfoFromP2pAddr", "nil pinfo", "Peers.Add", "nil peer",
                 "IsWritable", "ok"}

\* protocolHandler(stream): stream is "nil" or "open", peers says whether
\* p.state.Peers is set, res which call fails, w what IsWritable answers.
\* The value names the exit taken, the number of calls of stream.Close and
\* whether go p.dialPeers is executed.  The deferred stream.Close() of line
\* 307 on a nil interface value is a nil dereference: the handler panics
\* whatever the checks that follow say.
protocolHandlerRun(stream, peers, res, w) ==
    IF stream = "nil" THEN [exit |-> "panic", closes |-> 0, spawn |-> FALSE]
    ELSE IF ~state THEN [exit |-> "nil state", closes |-> 1, spawn |-> FALSE]
    ELSE IF ~peers THEN [exit |-> "nil peers", closes |-> 1, spawn |-> FALSE]
    ELSE IF res # "ok" THEN [exit |-> res, closes |-> 1, spawn |-> FALSE]
    ELSE IF w THEN [exit |-> "writable", closes |-> 1, spawn |-> FALSE]
    ELSE [exit |-> "not writable", closes |-> 1, spawn |-> TRUE]

\* An inbound stream of peer p on the protocol the handler is registered
\* for (handleProtocol needs a host): the transport hands the handler an
\* open stream, and the peer store of New is set.
protocolHandler(p) ==
    /\ ~crashed
    /\ state
    /\ Host # 0
    /\ \E res \in HandlerFails :
         IF protocolHandlerRun("open", TRUE, res, writable[p]).spawn
           THEN \E i \in FreeInst :
                  dp' = [dp EXCEPT ![i] = [DpOff EXCEPT !.pc = "start", !.pr = p]]
           ELSE UNCHANGED dp
    /\ UNCHANGED <<nodeVars, lifeVars, crashed, clock, dialQueue, peerVars, loopVars, callVars>>

NoHnd == [stream |-> "none", peers |-> TRUE, res |-> "ok", p |-> "p1", w |-> FALSE,
          exit |-> "none", closes |-> 0, spawn |-> FALSE]

\* a direct call of protocolHandler, with any stream and any peer store
ProtocolHandlerCall ==
    /\ ~crashed
    /\ \E stream \in {"nil", "open"}, peers \in BOOLEAN, res \in HandlerFails, p \in Peers :
         LET out == protocolHandlerRun(stream, peers, res, writable[p]) IN
         /\ hnd' = [stream |-> stream, peers |-> peers, res |-> res, p |-> p,
                    w |-> writable[p], exit |-> out.exit, closes |-> out.closes,
                    spawn |-> out.spawn]
         /\ crashed' = (out.exit = "panic")
         /\ IF out.spawn /\ FreeInst # {}
              THEN \E i \in FreeInst :
                     dp' = [dp EXCEPT ![i] = [DpOff EXCEPT !.pc = "start", !.pr = p]]
              ELSE UNCHANGED dp
    /\ UNCHANGED <<nodeVars, lifeVars, clock, dialQueue, peerVars, loopVars, ping,
                   disp, dcall, addr, echo, bnc>>

\* ------------------------------------------------------------ dialPeer
\* dialPeer(pr): dialed says whether a fresh dial succeeds, added whether
\* AddConnection succeeds.  The value is the error returned.
dialPeerErr(pr, dialed, added) ==
    IF pr = "nil" THEN "cannot dial nil peer"
    ELSE IF ~IsStarted THEN "p2p host not started"
    ELSE IF conns[pr] = 0 /\ ~dialed THEN "DialPeer"
    ELSE IF ~added THEN "AddConnection"
    ELSE "nil"

\* a dialPeer that dials whatever ConnsToPeer returns
dialPeerFreshAlways(pr) ==
    pr # "nil" /\ IsStarted

\* lines 424-427: Network().DialPeer is called when ConnsToPeer is empty
dialPeerFresh(pr) ==
    pr # "nil" /\ IsStarted /\ conns[pr] = 0

\* line 435: the connection handed to AddConnection, "none" when dialPeer
\* returns before
dialPeerAttach(pr, dialed) ==
    IF pr = "nil" \/ ~IsStarted THEN "none"
    ELSE IF dialPeerFresh(pr) THEN (IF dialed THEN "dialed" ELSE "none")
    ELSE "conns[0]"

dialPeer(pr, dialed, added) ==
    LET err == dialPeerErr(pr, dialed, added) IN
    /\ conns' = IF dialPeerFresh(pr) /\ dialed
                  THEN [conns EXCEPT ![pr] = @ + 1]
                  ELSE conns
    /\ IF err = "nil"
         THEN AddConnection(pr)
         ELSE UNCHANGED <<writable, active>>

NoDial == [pr |-> "nil", started |-> FALSE, had |-> 0, dialed |-> FALSE,
           added |-> FALSE, fresh |-> FALSE, attach |-> "none", err |-> "none",
           has |-> 0]

\* a direct call of dialPeer
DialPeerCall ==
    /\ ~crashed
    /\ \E pr \in Peers \cup {"nil"}, dialed \in BOOLEAN, added \in BOOLEAN :
         /\ dialPeer(pr, dialed, added)
         /\ dcall' = [pr |-> pr, started |-> IsStarted,
                      had |-> IF pr = "nil" THEN 0 ELSE conns[pr],
                      dialed |-> dialed, added |-> added,
                      fresh |-> dialPeerFresh(pr),
                      attach |-> dialPeerAttach(pr, dialed),
                      err |-> dialPeerErr(pr, dialed, added),
                      has |-> IF pr = "nil" THEN 0 ELSE conns'[pr]]
    /\ UNCHANGED <<nodeVars, lifeVars, crashed, clock, dialQueue, pstore, lastDial,
                   dp, loopVars, ping, disp, hnd, addr, echo, bnc>>

\* a call of dialPeer whose inputs and result are not kept
DialPeerDropped ==
    /\ ~crashed
    /\ \E pr \in Peers, dialed \in BOOLEAN, added \in BOOLEAN : dialPeer(pr, dialed, added)
    /\ UNCHANGED <<nodeVars, lifeVars, crashed, clock, dialQueue, pstore, lastDial,
                   dp, loopVars, callVars>>

\* ------------------------------------------------------------ dialPeers
Keys == {p \in Peers : dialQueue[p] # NoEntry}

\* the goroutine reaches the select statement: time.After starts a timer
AtSelect == [DpOff EXCEPT !.pc = "select", !.timer = clock + DialInterval]

\* the goroutine goes on with the keys left of its range, or reaches the
\* select statement again when none is left
Range(now, todo) ==
    IF todo = {} THEN AtSelect
    ELSE [DpOff EXCEPT !.pc = "range", !.now = now, !.todo = todo]

\* lines 359-365: the started check and the lookup of pr in the queue
dialPeersEnter(i) ==
    /\ ~crashed
    /\ dp[i].pc = "start"
    /\ dp' = [dp EXCEPT ![i] =
                IF ~IsStarted THEN [DpOff EXCEPT !.pc = "exited"]
                ELSE IF dialQueue[dp[i].pr] = NoEntry THEN [@ EXCEPT !.pc = "insert"]
                ELSE AtSelect]
    /\ UNCHANGED <<nodeVars, lifeVars, crashed, clock, dialQueue, peerVars,
                   loopVars, callVars>>

\* lines 366-369: the insert, with NextDial: time.Now()
dialPeersInsert(i) ==
    /\ ~crashed
    /\ dp[i].pc = "insert"
    /\ dialQueue' = [dialQueue EXCEPT ![dp[i].pr] = [NextDial |-> clock]]
    /\ dp' = [dp EXCEPT ![i] = AtSelect]
    /\ UNCHANGED <<nodeVars, lifeVars, crashed, clock, peerVars, loopVars, callVars>>

\* line 379: the context is cancelled
dialPeersDone(i) ==
    /\ ~crashed
    /\ dp[i].pc = "select"
    /\ cancelled
    /\ dp' = [dp EXCEPT ![i] = [DpOff EXCEPT !.pc = "exited"]]
    /\ UNCHANGED <<nodeVars, lifeVars, crashed, clock, dialQueue, peerVars,
                   loopVars, callVars>>

\* lines 384-391: the timer fires first; now is read and the range starts
dialPeersSweep(i) ==
    /\ ~crashed
    /\ dp[i].pc = "select"
    /\ ~cancelled
    /\ clock >= dp[i].timer
    /\ dp' = [dp EXCEPT ![i] = Range(clock, Keys)]
    /\ UNCHANGED <<nodeVars, lifeVars, crashed, clock, dialQueue, peerVars,
                   loopVars, callVars>>

\* lines 392-398: the entry is skipped when it is not due, or when IsActive
\* fails (failed) or says the peer is active
Skipped(i, k, failed) ==
    \/ dialQueue[k].NextDial > dp[i].now
    \/ failed
    \/ active[k]

\* lines 391-400: the next key, its checks, and the read of NextDial
dialPeersNext(i) ==
    /\ ~crashed
    /\ dp[i].pc = "range"
    /\ \E k \in dp[i].todo, failed \in BOOLEAN :
         dp' = [dp EXCEPT ![i] =
                  IF Skipped(i, k, failed)
                    THEN Range(@.now, @.todo \ {k})
                    ELSE [@ EXCEPT !.todo = @ \ {k}, !.pc = "advance", !.k = k,
                                   !.nd = dialQueue[k].NextDial]]
    /\ UNCHANGED <<nodeVars, lifeVars, crashed, clock, dialQueue, peerVars,
                   loopVars, callVars>>

\* line 400: the write of NextDial
dialPeersAdvance(i) ==
    /\ ~crashed
    /\ dp[i].pc = "advance"
    /\ dialQueue' = [dialQueue EXCEPT ![dp[i].k].NextDial = dp[i].nd + DialBackoff]
    /\ dp' = [dp EXCEPT ![i].pc = "dial", ![i].nd = 0]
    /\ UNCHANGED <<nodeVars, lifeVars, crashed, clock, peerVars, loopVars, callVars>>

\* lines 401-404: dialPeer; its error is logged
dialPeersDial(i) ==
    /\ ~crashed
    /\ dp[i].pc = "dial"
    /\ \E dialed \in BOOLEAN, added \in BOOLEAN : dialPeer(dp[i].k, dialed, added)
    /\ lastDial' = [lastDial EXCEPT ![dp[i].k] = clock]
    /\ dp' = [dp EXCEPT ![i] = Range(@.now, @.todo)]
    /\ UNCHANGED <<nodeVars, lifeVars, crashed, clock, dialQueue, pstore, loopVars,
                   callVars>>

\* ------------------------------------------------------------ addAddr
\* addAddr registering the address only once the dial has succeeded
addAddrDialFirst(p, dialOk) ==
    IF ~state \/ Host = 0 THEN [exit |-> "no state or host", ttl |-> "none", dials |-> 0]
    ELSE IF p \in pstore THEN [exit |-> "already have peer", ttl |-> "none", dials |-> 0]
    ELSE IF ~dialOk THEN [exit |-> "DialPeer", ttl |-> "none", dials |-> 1]
    ELSE [exit |-> "connected", ttl |-> "PermanentAddrTTL", dials |-> 1]

\* addAddr(conn) for a connection whose remote peer is p; dialOk says
\* whether Network().DialPeer succeeds.  The value names the exit taken,
\* the time-to-live AddAddr is called with ("none": not called) and the
\* number of calls of DialPeer.
addAddrRun(p, dialOk) ==
    IF ~state \/ Host = 0 THEN [exit |-> "no state or host", ttl |-> "none", dials |-> 0]
    ELSE IF p \in pstore THEN [exit |-> "already have peer", ttl |-> "none", dials |-> 0]
    ELSE IF ~dialOk THEN [exit |-> "DialPeer", ttl |-> "PermanentAddrTTL", dials |-> 1]
    ELSE [exit |-> "connected", ttl |-> "PermanentAddrTTL", dials |-> 1]

NoAddr == [p |-> "none", ready |-> FALSE, known |-> FALSE, dialOk |-> FALSE,
           exit |-> "none", ttl |-> "none", dials |-> 0, before |-> {}, after |-> {}]

\* onConn: the network notifies the node of a connection with peer p.  A
\* dial that succeeds leaves the swarm with a connection to p.
addAddr(p) ==
    /\ ~crashed
    /\ \E dialOk \in BOOLEAN :
         LET out == addAddrRun(p, dialOk) IN
         /\ pstore' = IF out.ttl # "none" THEN pstore \cup {p} ELSE pstore
         /\ conns' = IF out.exit = "connected" /\ conns[p] = 0
                       THEN [conns EXCEPT ![p] = 1]
                       ELSE conns
         /\ addr' = [p |-> p, ready |-> (state /\ Host # 0), known |-> (p \in pstore),
                     dialOk |-> dialOk, exit |-> out.exit, ttl |-> out.ttl,
                     dials |-> out.dials, before |-> pstore, after |-> pstore']
    /\ UNCHANGED <<nodeVars, lifeVars, crashed, clock, dialQueue, writable, active,
                   lastDial, dp, loopVars, ping, disp, hnd, dcall, echo, bnc>>

\* ------------------------------------------------------------ pingHandler
\* the size of the buffer of bufio.NewWriter
BufSize == 4096

\* the numbers of bytes a remote sends on a ping stream
PingSizes == {0, 1, NonceLen, BufSize, BufSize + NonceLen}

\* io.Copy(w, r) with w a bufio.Writer on the stream: when the stream is an
\* io.ReaderFrom (direct) the bytes read go to the stream as they come;
\* otherwise they go to the buffer of w, which is written to the stream each
\* time it is full.  The handler never calls w.Flush().  The value is the
\* number of bytes, the first ones read, the stream has been given.
Copy(n, direct) ==
    IF direct THEN n ELSE BufSize * (n \div BufSize)

\* pingHandler(stream): peers says whether p.state.Peers is set, n is the
\* number of bytes the remote sends before the read ends.  As in
\* protocolHandler the deferred Close of a nil stream panics.
pingHandlerRun(stream, peers, n, direct) ==
    IF stream = "nil" THEN [exit |-> "panic", closes |-> 0, echoed |-> 0]
    ELSE IF ~state THEN [exit |-> "nil state", closes |-> 1, echoed |-> 0]
    ELSE IF ~peers THEN [exit |-> "nil peers", closes |-> 1, echoed |-> 0]
    ELSE [exit |-> "copied", closes |-> 1, echoed |-> Copy(n, direct)]

NoEcho == [stream |-> "none", peers |-> TRUE, n |-> 0, direct |-> FALSE,
           ready |-> FALSE, exit |-> "none", closes |-> 0, echoed |-> 0]

\* a call of pingHandler
pingHandler ==
    /\ ~crashed
    /\ \E stream \in {"nil", "open"}, peers \in BOOLEAN, n \in PingSizes, direct \in BOOLEAN :
         LET out == pingHandlerRun(stream, peers, n, direct) IN
         /\ echo' = [stream |-> stream, peers |-> peers, n |-> n, direct |-> direct,
                     ready |-> state, exit |-> out.exit, closes |-> out.closes,
                     echoed |-> out.echoed]
         /\ crashed' = (out.exit = "panic")
    /\ UNCHANGED <<nodeVars, lifeVars, clock, dialQueue, peerVars, dp, loopVars, ping,
                   disp, hnd, dcall, addr, bnc>>

\* ------------------------------------------------------------ bn.ToUint8Slice
\* value.Bytes(): the big-endian bytes of v, none for 0
RECURSIVE Bytes(_)
Bytes(v) == IF v = 0 THEN <<>> ELSE Append(Bytes(v \div 256), v % 256)

\* int(math.Ceil(float64(bitLength) / float64(8)))
BufLength(bitLength) == (bitLength + 7) \div 8

RECURSIVE Reverse(_)
Reverse(q) == IF q = <<>> THEN <<>> ELSE Append(Reverse(Tail(q)), Head(q))

\* q without its element at position j
Without(q, j) == SubSeq(q, 1, j - 1) \o SubSeq(q, j + 1, Len(q))

\* sort.Sort(sort.Reverse(Uint8Slice(output))): the bytes in descending order
RECURSIVE SortReverse(_)
SortReverse(q) ==
    IF q = <<>> THEN <<>>
    ELSE LET j == CHOOSE j \in 1..Len(q) : \A l \in 1..Len(q) : q[j] >= q[l]
         IN <<q[j]>> \o SortReverse(Without(q, j))

\* lines 93-95: output[index+1] = b[index] for index below bufLength-1; an
\* index past the end of b is a panic
RECURSIVE Fill(_, _, _, _)
Fill(output, b, index, bufLength) ==
    IF index >= bufLength - 1 THEN [panic |-> FALSE, out |-> output]
    ELSE IF index >= Len(b) THEN [panic |-> TRUE, out |-> <<>>]
    ELSE Fill([output EXCEPT ![index + 2] = b[index + 1]], b, index + 1, bufLength)

\* ToUint8Slice(value, bitLength, isLittleEndian) for a non-nil value and a
\* fixed bitLength: the slice returned, or the panic
ToUint8Slice(value, bitLength, isLittleEndian) ==
    LET bufLength == BufLength(bitLength)
        output == Fill([j \in 1..bufLength |-> 0], Bytes(value), 0, bufLength)
    IN IF ~output.panic /\ isLittleEndian
         THEN [panic |-> FALSE, out |-> SortReverse(output.out)]
         ELSE output

BitLengths == {8, 16, 24}

RECURSIVE Pow2(_)
Pow2(n) == IF n = 0 THEN 1 ELSE 2 * Pow2(n - 1)

\* values of one, two and three bytes
BnValues == {0, 1, 2, 127, 255, 256, 258, 513, 65535, 65536, 66051, 197121}

NoBn == [value |-> 0, bitLength |-> 0, isLittleEndian |-> FALSE, called |-> FALSE,
         panic |-> FALSE, out |-> <<>>]

\* a call of ToUint8Slice with a value that fits in bitLength bits
ToUint8SliceCall ==
    /\ ~crashed
    /\ \E value \in BnValues, bitLength \in BitLengths, isLittleEndian \in BOOLEAN :
         /\ value < Pow2(bitLength)
         /\ LET r == ToUint8Slice(value, bitLength, isLittleEndian) IN
              /\ bnc' = [value |-> value, bitLength |-> bitLength,
                         isLittleEndian |-> isLittleEndian, called |-> TRUE,
                         panic |-> r.panic, out |-> r.out]
              /\ crashed' = r.panic
    /\ UNCHANGED <<nodeVars, lifeVars, clock, dialQueue, peerVars, dp, loopVars, ping,
                   disp, hnd, dcall, addr, echo>>

\* ------------------------------------------------------------ the node
\* no call of the handlers and functions above has been made
NoCalls ==
    /\ hnd = NoHnd
    /\ dcall = NoDial
    /\ addr = NoAddr
    /\ echo = NoEcho
    /\ bnc = NoBn

Init ==
    /\ InitNode
    /\ ping = NoPing
    /\ disp = NoDisp
    /\ NoCalls

Lifecycle ==
    \/ Start
    \/ Stop

Loops ==
    \/ LaunchPingPeer
    \/ pingPeerDone
    \/ pingPeerTick
    \/ pingPeerSend
    \/ LaunchRequestAny
    \/ requestAnyDone
    \/ requestAnyTick
    \/ requestAnyRequest

Redial ==
    \/ \E p \in Peers : protocolHandler(p)
    \/ \E i \in Insts : dialPeersEnter(i)
    \/ \E i \in Insts : dialPeersInsert(i)
    \/ \E i \in Insts : dialPeersDone(i)

Sweeps ==
    \/ \E i \in Insts : dialPeersSweep(i)
    \/ \E i \in Insts : dialPeersNext(i)
    \/ \E i \in Insts : dialPeersAdvance(i)
    \/ \E i \in Insts : dialPeersDial(i)

Network ==
    \/ Tick
    \/ \E p \in Peers : ActiveLapses(p)
    \/ \E p \in Peers : ConnClosed(p)

Next ==
    \/ Lifecycle
    \/ Loops
    \/ Redial
    \/ Sweeps
    \/ Network
    \/ SendPing
    \/ HandlePeerMessage
    \/ ProtocolHandlerCall
    \/ DialPeerCall
    \/ \E p \in Peers : addAddr(p)
    \/ pingHandler
    \/ ToUint8SliceCall

\* the whole node
Spec == Init /\ [][Next]_vars

\* The node and its loops while no timer of a dialPeers goroutine fires:
\* Start, Stop, the ping and request loops, and the redial goroutines up to
\* their select.
NextLife ==
    \/ Lifecycle
    \/ Loops
    \/ Redial

SpecLife == Init /\ [][NextLife]_vars

\* every goroutine that can take a step takes one
FairLife ==
    /\ SpecLife
    /\ WF_vars(pingPeerDone \/ pingPeerTick \/ pingPeerSend)
    /\ WF_vars(requestAnyDone \/ requestAnyTick \/ requestAnyRequest)
    /\ \A i \in Insts : WF_vars(dialPeersEnter(i) \/ dialPeersInsert(i) \/ dialPeersDone(i))

\* The dial queue of a node New returned, with its cancel function: Start,
\* Stop, the redial goroutines and their sweeps, the peers and the clock.
InitDial ==
    /\ Init
    /\ FromNew
    /\ cancel

NextDial ==
    \/ StartDropped
    \/ StopDropped
    \/ Redial
    \/ Sweeps
    \/ Network

SpecDial == InitDial /\ [][NextDial]_vars

\* sendPingToPeer on a node New returned, before and after Start
InitPing ==
    /\ InitNode
    /\ FromNew
    /\ cancel
    /\ ping \in PingCalls
    /\ disp = NoDisp
    /\ NoCalls

NextPing ==
    \/ Start
    \/ SendPing

SpecPing == InitPing /\ [][NextPing]_vars

\* handlePeerMessage over the registries and the envelopes
InitDispatch ==
    /\ InitNode
    /\ FromNew
    /\ cancel
    /\ ping = NoPing
    /\ disp \in DispCalls
    /\ NoCalls

NextDispatch ==
    \/ Start
    \/ HandlePeerMessage

SpecDispatch == InitDispatch /\ [][NextDispatch]_vars

\* protocolHandler called on a node with and without its state, before and
\* after Start, with the dialPeer calls that make a peer writable
InitProtocol ==
    /\ Init
    /\ cfg = "ok"
    /\ sync
    /\ cancel

NextProtocol ==
    \/ StartDropped
    \/ ProtocolHandlerCall
    \/ DialPeerDropped

SpecProtocol == InitProtocol /\ [][NextProtocol]_vars

\* pingHandler called on any node, before and after Start
NextEcho ==
    \/ Start
    \/ pingHandler

SpecEcho == Init /\ [][NextEcho]_vars

\* the notifications of the network about new connections, and the
\* connections the remote side closes
NextConns ==
    \/ Start
    \/ \E p \in Peers : addAddr(p)
    \/ \E p \in Peers : ConnClosed(p)

SpecConns == Init /\ [][NextConns]_vars

\* dialPeer called on any node, before and after Start, for peers with and
\* without a connection
NextDialPeer ==
    \/ Start
    \/ DialPeerCall
    \/ \E p \in Peers : ConnClosed(p)

SpecDialPeer == Init /\ [][NextDialPeer]_vars

\* bn.ToUint8Slice over the values and the bit lengths
NextBn ==
    \/ Start
    \/ ToUint8SliceCall

SpecBn == Init /\ [][NextBn]_vars

\* ------------------------------------------------------------ the claims

\* C1: once IsWritable(p) is true, no sweep of dialPeers calls dialPeer(p)
\* until IsWritable(p) is false again: no goroutine takes the dialPeer step
\* of line 401 for a peer that is writable.
C1_NoDialWhileWritable ==
    [][\A i \in Insts : dialPeersDial(i) => ~writable[dp[i].k]]_vars

\* C2: the NextDial of a dial-queue entry never decreases, whatever the
\* goroutines do.
C2_NextDialMonotonic ==
    [][\A p \in Peers :
          dialQueue[p] # NoEntry => dialQueue'[p].NextDial >= dialQueue[p].NextDial]_vars

\* C3: the dial queue holds one entry per peer identity, and a later call of
\* dialPeers for an identity already queued does not replace the entry: the
\* insert of line 366 is only made for an identity the queue does not hold.
C3_InsertOnlyWhenAbsent ==
    [][\A i \in Insts : dialPeersInsert(i) => dialQueue[dp[i].pr] = NoEntry]_vars

\* C4: on a started node and for a non-nil peer, sendPingToPeer never
\* panics; when the bytes read back are the nonce it returns nil, and when a
\* byte differs or fewer bytes arrive it returns an error.
C4_PingRoundTrip ==
    [][(SendPing /\ IsStarted /\ ping.pr) =>
          /\ ping'.res # "panic"
          /\ ping.fail = "none" /\ ping.in = ping.b => ping'.res = "nil"
          /\ ping.fail = "none" /\ ping.in # ping.b /\ Len(ping.in) <= NonceLen
               => ping'.res \notin {"nil", "panic"}]_vars

\* C5: when the registry holds for the message's kind K a handler whose
\* declared kind is K, handlePeerMessage calls that handler once, with the
\* envelope's peer and message, and returns what the handler returns; for a
\* nil envelope, a nil message, a kind with no handler or a handler of
\* another declared kind it returns an error and calls no handler.
C5_Dispatch ==
    disp.ret # "none" =>
        IF ~disp.msg.nil /\ disp.msg.Message # "nil"
             /\ disp.registry[disp.msg.Kind] = disp.msg.Kind
          THEN /\ disp.calls = << [kind |-> disp.msg.Kind, Type |-> disp.msg.Kind,
                                   Peer |-> disp.msg.Peer,
                                   Message |-> disp.msg.Message] >>
               /\ disp.ret = disp.herr
          ELSE /\ disp.calls = <<>>
               /\ disp.ret # "nil"

\* a handler was called and its error came back
C5_Witness ==
    /\ Len(disp.calls) = 1
    /\ disp.ret = "handler error"

\* no background loop is running
NoLoopRuns ==
    /\ pingLoop \in {"off", "exited"}
    /\ reqLoop \in {"off", "exited"}
    /\ \A i \in Insts : dp[i].pc \in {"off", "exited"}

\* C6: after Stop has returned nil, every running background loop exits
\* through the cancellation branch of its select (runs in which the process
\* panics first, as in sendPingToPeer, are left aside).
C6_LoopsExitAfterStop ==
    (ret = [op |-> "Stop", err |-> "nil"]) ~> (NoLoopRuns \/ crashed)

\* C7 as claimed: Stop on a node on which no Start has succeeded returns the
\* "uninitialized" error and does not cancel.
C7_StopUninitialized ==
    (ret.op = "Stop" /\ ~startOk) =>
        /\ ret.err = "ErrUninitializedService"
        /\ ~cancelled

\* C7 as amended: Stop on a node on which no Start has succeeded returns an
\* error, ErrNoHost when the node has its state and ErrUninitializedService
\* when it has none, and does not cancel: no loop leaves through its
\* cancellation branch.
C7_StopBeforeStart ==
    (ret.op = "Stop" /\ ~startOk) =>
        /\ ret.err = (IF state THEN "ErrNoHost" ELSE "ErrUninitializedService")
        /\ ~cancelled
        /\ pingLoop # "exited"
        /\ reqLoop # "exited"

\* Stop has failed on a node New returned, while its ping loop runs
C7_Witness ==
    /\ FromNew
    /\ ret = [op |-> "Stop", err |-> "ErrNoHost"]
    /\ ~startOk
    /\ pingLoop = "tick"

\* C8: Start on a node whose config has a nil P2P sub-config returns an
\* error, does not crash and leaves Host unset.
C8_StartNilP2P ==
    (cfg = "noP2P" /\ ret.op = "Start") =>
        /\ ret.err \notin {"nil", "panic"}
        /\ ~crashed
        /\ Host = 0

\* C9: while no call of Start has returned nil, Host is unset and IsStarted
\* reports false.
C9_NotStartedUntilStartSucceeds ==
    ~startOk => (Host = 0 /\ ~IsStarted)

\* Start has failed in one of the calls it makes
C9_Witness ==
    /\ ret = [op |-> "Start", err |-> "error"]
    /\ ~startOk
    /\ ~IsStarted

\* C10: once Host is assigned, no operation assigns it again.
C10_HostAssignedOnce ==
    [][Host # 0 => Host' = Host]_vars

\* C11: protocolHandler closes the stream it is given exactly once on every
\* exit, and with a nil stream it returns without a panic and closes
\* nothing.
C11_StreamClosedOnce ==
    hnd.exit # "none" =>
        IF hnd.stream = "open"
          THEN hnd.closes = 1
          ELSE hnd.exit # "panic" /\ hnd.closes = 0

\* a goroutine is in a read-modify-write of the dial queue: between the
\* lookup of line 365 and the insert, or between the read and the write of
\* NextDial at line 400
Writing(i) == dp[i].pc \in {"insert", "advance"}

\* a goroutine is ranging over the dial queue
Reading(i) == dp[i].pc \in {"range", "dial"}

\* C12: no goroutine is inserting into the dial queue or updating a
\* NextDial while another goroutine reads or writes the queue.
C12_DialQueueExclusive ==
    \A i \in Insts, j \in Insts :
        (i # j /\ Writing(i)) => ~(Writing(j) \/ Reading(j))

\* C13: a dialPeers that starts once Stop has returned nil exits without
\* adding to the dial queue.
C13_DialPeersAfterStop ==
    [][\A i \in Insts :
          (dialPeersEnter(i) /\ ret = [op |-> "Stop", err |-> "nil"])
             => (dp'[i].pc = "exited" /\ dialQueue' = dialQueue)]_vars

\* C14: for a value that fits in bitLength bits ToUint8Slice does not panic,
\* returns ceil(bitLength/8) bytes, and its little-endian result is the
\* reversal of its big-endian result.
C14_LittleEndianIsReversal ==
    bnc.called =>
        LET be == ToUint8Slice(bnc.value, bnc.bitLength, FALSE)
            le == ToUint8Slice(bnc.value, bnc.bitLength, TRUE)
        IN /\ ~bnc.panic
           /\ Len(bnc.out) = BufLength(bnc.bitLength)
           /\ ~be.panic /\ ~le.panic
           /\ le.out = Reverse(be.out)

\* C15: two consecutive calls of dialPeer the redial loops make for one
\* peer are at least DialBackoff apart.
C15_DialsBackoffApart ==
    [][\A i \in Insts :
          (dialPeersDial(i) /\ lastDial[dp[i].k] # -1)
             => clock - lastDial[dp[i].k] >= DialBackoff]_vars

\* C16: the step of line 400 advances NextDial of the entry by exactly
\* DialBackoff, the call of dialPeer that follows leaves the queue as it
\* is, and no step removes an entry from the queue.
C16_AdvanceBeforeDial ==
    [][/\ \A i \in Insts :
            dialPeersAdvance(i) =>
               dialQueue'[dp[i].k].NextDial = dialQueue[dp[i].k].NextDial + DialBackoff
       /\ \A i \in Insts : dialPeersDial(i) => dialQueue' = dialQueue
       /\ \A p \in Peers : dialQueue[p] # NoEntry => dialQueue'[p] # NoEntry]_vars

\* C17: dialPeer on a started node for a peer with a connection makes no
\* fresh dial, hands the first connection to AddConnection, returns what
\* AddConnection returns and leaves the number of connections as it was;
\* for a peer without one it dials, and a dial that fails attaches nothing.
C17_DialPeerReuses ==
    (dcall.err # "none" /\ dcall.started /\ dcall.pr # "nil") =>
        IF dcall.had > 0
          THEN /\ ~dcall.fresh
               /\ dcall.attach = "conns[0]"
               /\ dcall.err = (IF dcall.added THEN "nil" ELSE "AddConnection")
               /\ dcall.has = dcall.had
          ELSE /\ dcall.fresh
               /\ ~dcall.dialed => (dcall.attach = "none" /\ dcall.err = "DialPeer"
                                      /\ dcall.has = 0)
               /\ dcall.dialed => (dcall.attach = "dialed" /\ dcall.has = 1)

\* dialPeer was called for a peer that had a connection
C17_Witness ==
    /\ dcall.started
    /\ dcall.had > 0
    /\ dcall.err = "AddConnection"

\* C18: a loop that has ended, by a return or by a panic, ended after the
\* cancellation.
C18_LoopsEndOnlyOnCancel ==
    [][(\/ pingLoop # "off" /\ (pingLoop' = "exited" \/ crashed')
        \/ reqLoop # "off" /\ (reqLoop' = "exited" \/ crashed')
        \/ \E i \in Insts :
              /\ dp[i].pc \in {"select", "range", "advance", "dial"}
              /\ (dp'[i].pc = "exited" \/ crashed'))
         => cancelled]_vars

\* C19: addAddr does nothing without a host or a state or for a peer the
\* peer store holds; otherwise it registers the address with the permanent
\* time-to-live and dials once, and the address stays registered when the
\* dial fails.
C19_AddAddr ==
    addr.p # "none" =>
        IF ~addr.ready \/ addr.known
          THEN /\ addr.ttl = "none"
               /\ addr.dials = 0
               /\ addr.after = addr.before
          ELSE /\ addr.ttl = "PermanentAddrTTL"
               /\ addr.dials = 1
               /\ addr.after = addr.before \cup {addr.p}

\* the dial of addAddr has failed
C19_Witness ==
    /\ addr.ready
    /\ ~addr.known
    /\ ~addr.dialOk
    /\ addr.p \in pstore

\* C20: pingHandler has written every byte it read back to the stream when
\* it closes the stream.
C20_PingEchoed ==
    (echo.exit = "copied") => echo.echoed = echo.n

\* a dialPeers goroutine is in its loop: at the select or in a sweep
InLoop(i) == dp[i].pc \in {"select", "range", "advance", "dial"}

\* C21: the dialPeers goroutines in their loop are no more than the peer
\* identities in the dial queue.
C21_OneLoopPerPeer ==
    Cardinality({i \in Insts : InLoop(i)}) <= Cardinality(Keys)

====
